---- MODULE Spec2Model ----
(***************************************************************************)
(* Model of the caching proxy of src/src/index.ts (the second, complete    *)
(* copy of the program, lines 175-365; the first copy, lines 1-173, has    *)
(* the same hashRequest, getCachedResponse, forwardRequest and             *)
(* replayOrForward).                                                       *)
(*                                                                         *)
(* Text (request bodies, URLs, file contents) is a sequence of tokens,     *)
(* each token a string standing for a run of bytes.  The structural JSON   *)
(* tokens are "{", "}", "[", "]" and "null".                               *)
(***************************************************************************)
EXTENDS Integers, Sequences, FiniteSets, TLC

VARIABLES SKIP_CACHE, files, pc, req, hash, encoded, response, forwards, reads,
          seen, upstream, exited

vars == <<SKIP_CACHE, files, pc, req, hash, encoded, response, forwards, reads,
          seen, upstream, exited>>

(***************************************************************************)
(* Bounds and program constants.                                           *)
(***************************************************************************)
\* Number of inbound requests handled (all of them may be in flight at once).
MaxRequests == 2

\* --proxy-port default.
PROXY_PORT == 7001

\* --port default.
PORT == 1234

Slots == 1..MaxRequests

\* JavaScript null / undefined.
Null == [null |-> TRUE]
Undefined == "undefined"

(***************************************************************************)
(* Inputs: the inbound requests, the upstream's answers, the contents the  *)
(* cache directory may hold at start-up.                                   *)
(***************************************************************************)
\* req.headers is an object: lower-cased names, one value per name, kept
\* here as the sequence of its entries in insertion order.
H(n, v) == [name |-> n, value |-> v]

Q(m, u, hs, b) == [method |-> m, url |-> u, headers |-> hs, body |-> b]

GraphQLBody(op) == <<"{", "query", "{a}", "operationName", op, "}">>

\* The requests the proxy is sent.
Requests ==
  { Q("GET", <<"/items", "?page=2">>, <<H("session", "bob")>>, <<>>),
    Q("POST", <<"/graphql">>, <<>>, GraphQLBody("GetA")),
    Q("POST", <<"/graphql">>, <<>>, GraphQLBody("GetB")),
    Q("POST", <<"/graphql">>, <<>>, <<"{", "query">>) }

\* The requests hashRequest is applied to on its own.
HeaderLists ==
  { <<>>,
    <<H("session", "alice")>>,
    <<H("session", "bob")>>,
    <<H("x-time", "1"), H("session", "alice")>>,
    <<H("session", "alice"), H("x-time", "2")>>,
    <<H("session", "alice"), H("s", "1")>>,
    <<H("s", "2"), H("e", "3")>> }

HashRequests ==
  { Q(m, u, hs, b) :
      m \in {"GET", "POST"},
      u \in {<<"/items">>, <<"/items", "?page=2">>},
      hs \in HeaderLists,
      b \in {<<>>, <<"a=1">>} }

NoRequest == Q("", <<>>, <<>>, <<>>)

R(s, hs, b) == [statusCode |-> s, headers |-> hs, body |-> b]

\* What the upstream may answer: res.statusCode, res.rawHeaders (flat,
\* alternating name and value, duplicates kept), the body text.
UpstreamResponses ==
  { R(200, <<"set-cookie", "a=1", "set-cookie", "b=2">>, "{data:{a:1}}"),
    R(404, <<>>, "not found") }

StatusCodes == {200, 404, 502}

(***************************************************************************)
(* Text helpers.                                                           *)
(***************************************************************************)
\* String.prototype.startsWith on token text.
StartsWith(s, p) == Len(s) >= Len(p) /\ SubSeq(s, 1, Len(p)) = p

\* The tokens of a text run together into one string (template literals).
RECURSIVE Flat(_)
Flat(s) == IF s = <<>> THEN "" ELSE Head(s) \o Flat(Tail(s))

\* Array.prototype.join("\n") of a list of strings, as text.
RECURSIVE Join(_)
Join(vs) ==
  IF vs = <<>> THEN <<>>
  ELSE IF Len(vs) = 1 THEN <<vs[1]>>
  ELSE <<vs[1], "\n">> \o Join(Tail(vs))

(***************************************************************************)
(* JSON.stringify and JSON.parse, on tokens.                               *)
(* An object is "{" key value ... "}", a value one token or an array       *)
(* "[" token ... "]"; a number is written in decimal.                      *)
(***************************************************************************)
JSONstringify(e) ==
  <<"{", "statusCode", ToString(e.statusCode), "headers", "[">>
    \o e.headers \o <<"]", "body", e.body, "}">>

ParseError == [ok |-> FALSE, end |-> 0, m |-> <<>>]

\* The index of the last token of the value starting at i; 0 when the text
\* ends inside it or the token cannot start a value.
ValueEnd(toks, i) ==
  IF i > Len(toks) \/ toks[i] \in {"{", "}", "]"} THEN 0
  ELSE IF toks[i] # "[" THEN i
  ELSE IF \E j \in (i + 1)..Len(toks) : toks[j] = "]"
       THEN CHOOSE j \in (i + 1)..Len(toks) :
              /\ toks[j] = "]"
              /\ \A k \in (i + 1)..(j - 1) : toks[k] # "]"
       ELSE 0

\* The members of an object from token i on, up to its closing brace.
RECURSIVE ParseMembers(_, _)
ParseMembers(toks, i) ==
  IF i > Len(toks) THEN ParseError
  ELSE IF toks[i] = "}" THEN [ok |-> TRUE, end |-> i, m |-> <<>>]
  ELSE IF toks[i] \in {"{", "[", "]"} THEN ParseError
  ELSE LET e == ValueEnd(toks, i + 1) IN
       IF e = 0 THEN ParseError
       ELSE LET rest == ParseMembers(toks, e + 1) IN
            IF ~rest.ok THEN ParseError
            ELSE [ok |-> TRUE, end |-> rest.end,
                  m |-> <<[k |-> toks[i], v |-> SubSeq(toks, i + 1, e)]>> \o rest.m]

\* JSON.parse: [ok |-> FALSE] is a SyntaxError thrown; otherwise m holds the
\* members of the parsed object, or isNull says the text was the literal null.
JSONparse(toks) ==
  IF toks = <<"null">> THEN [ok |-> TRUE, isNull |-> TRUE, m |-> <<>>]
  ELSE IF toks = <<>> \/ toks[1] # "{" THEN [ok |-> FALSE, isNull |-> FALSE, m |-> <<>>]
  ELSE LET p == ParseMembers(toks, 2) IN
       IF p.ok /\ p.end = Len(toks)
       THEN [ok |-> TRUE, isNull |-> FALSE, m |-> p.m]
       ELSE [ok |-> FALSE, isNull |-> FALSE, m |-> <<>>]

HasMember(m, key) == \E i \in DOMAIN m : m[i].k = key

\* Property read obj[key]: the value tokens of the last member named key.
Member(m, key) ==
  m[CHOOSE i \in DOMAIN m :
      /\ m[i].k = key
      /\ \A j \in DOMAIN m : m[j].k = key => j <= i].v

\* A scalar member's value, Undefined when the object has no such member.
Scalar(m, key) == IF HasMember(m, key) THEN Member(m, key)[1] ELSE Undefined

\* The decimal number a token writes.
ParseNumber(tok) == CHOOSE n \in StatusCodes : ToString(n) = tok

\* The parsed object read as an EncodedResponse {statusCode, headers, body}.
AsEncoded(m) ==
  LET hs == Member(m, "headers") IN
  [statusCode |-> ParseNumber(Scalar(m, "statusCode")),
   headers |-> SubSeq(hs, 2, Len(hs) - 1),
   body |-> Scalar(m, "body")]

(***************************************************************************)
(* The fingerprint and the cache filename.                                 *)
(***************************************************************************)
\* new Set("session") iterates the string: the set holds its characters.
cachedHeaders == {"s", "e", "s", "s", "i", "o", "n"}

\* Header names in lexicographic order (Array.prototype.sort).
SortedNames == <<"e", "i", "n", "o", "s", "session", "x-time">>

\* Object.keys(req.headers).filter(h => cachedHeaders.has(h)), then sort().
HeaderNames(q) ==
  LET keys == {q.headers[i].name : i \in DOMAIN q.headers}
      IsKept(n) == n \in keys /\ n \in cachedHeaders
  IN SelectSeq(SortedNames, IsKept)

HeaderValue(q, n) ==
  q.headers[CHOOSE i \in DOMAIN q.headers : q.headers[i].name = n].value

\* headerNames.map(h => req.headers[h]).join("\n")
JoinedHeaders(q) ==
  LET names == HeaderNames(q) IN
  Join([i \in DOMAIN names |-> HeaderValue(q, names[i])])

\* The bytes digested.  "+" binds tighter than "??":
\*   req.method ?? ("" + req.url + headers)
Digested(q, data) ==
  (IF q.method # Undefined THEN <<q.method>> ELSE q.url \o JoinedHeaders(q))
    \o data

\* Variant of hashRequest: every header value is digested, with no filter
\* by cachedHeaders.
hashRequestAllHeaders(q, data) ==
  <<"sha1(", q.method>> \o q.url
    \o Join([i \in DOMAIN q.headers |-> q.headers[i].value]) \o data \o <<")">>

\* sha1 + base64url, taken to be collision-free: the digest is the text.
hashRequest(q, data) == <<"sha1(">> \o Digested(q, data) \o <<")">>

\* Variant of cacheFilename: the operation name is left out of the filename.
cacheFilenameHashOnly(h, graphQLOperation) == h

\* graphQLOperation ? `${graphQLOperation}_${hash}` : `${hash}`
cacheFilename(h, graphQLOperation) ==
  IF graphQLOperation \notin {Undefined, "null", ""}
  THEN <<graphQLOperation, "_">> \o h
  ELSE h

(***************************************************************************)
(* replayOrForward's locals, as functions of the request.                  *)
(***************************************************************************)
IsGraphQL(q) == StartsWith(q.url, <<"/graphql">>)

\* JSON.parse(data.toString()).operationName throws on text that is not
\* JSON, and on the literal null (a property read of null).
OperationThrows(q, data) ==
  IsGraphQL(q) /\ (~JSONparse(data).ok \/ JSONparse(data).isNull)

\* graphQLOperation: "null" off the GraphQL path, Undefined when the body
\* has no operationName.
graphQLOperationOf(q, data) ==
  IF IsGraphQL(q) THEN Scalar(JSONparse(data).m, "operationName") ELSE "null"

FilenameOf(q) ==
  cacheFilename(hashRequest(q, q.body), graphQLOperationOf(q, q.body))

\* The file the handler of request r reads and writes.
Filename(r) == cacheFilename(hash[r], graphQLOperationOf(req[r], req[r].body))

(***************************************************************************)
(* The cache store: files maps each existing file of CACHE_DIR to its      *)
(* content.                                                                *)
(***************************************************************************)
\* readFile's outcome: the file's text, or ENOENT; NotRead before the read.
NotRead == <<"(not read)">>
Enoent == <<"ENOENT">>
readFile(fs, fn) == IF fn \in DOMAIN fs THEN fs[fn] ELSE Enoent

\* Variant of getCachedResponse: the file is looked up under the bare hash,
\* without the operation name saveResponse puts in front of it.
getCachedResponseBareHash(fs, h, graphQLOperation) ==
  LET text == readFile(fs, h) IN
  IF text = Enoent THEN Null
  ELSE LET p == JSONparse(text) IN
       IF ~p.ok \/ p.isNull THEN Null ELSE AsEncoded(p.m)

\* readFile + JSON.parse inside try/catch: Null on ENOENT or SyntaxError
\* (and the parsed value null is null).
getCachedResponse(fs, h, graphQLOperation) ==
  LET text == readFile(fs, cacheFilename(h, graphQLOperation)) IN
  IF text = Enoent THEN Null
  ELSE LET p == JSONparse(text) IN
       IF ~p.ok \/ p.isNull THEN Null ELSE AsEncoded(p.m)

\* writeFile opens with flag "w": the file is created or truncated.
Truncated(fs, fn) ==
  [f \in DOMAIN fs \cup {fn} |-> IF f = fn THEN <<>> ELSE fs[f]]

\* The write lands at offset 0 of the writer's own descriptor: bytes beyond
\* it that another writer put there in the meantime stay.
Written(fs, fn, text) ==
  [f \in DOMAIN fs \cup {fn} |->
     IF f # fn THEN fs[f]
     ELSE IF fn \in DOMAIN fs /\ Len(fs[fn]) > Len(text)
          THEN text \o SubSeq(fs[fn], Len(text) + 1, Len(fs[fn]))
          ELSE text]

\* What saveResponse writes for a response.
SavedText(e) == JSONstringify(e)

(***************************************************************************)
(* The 502 answer of replayOrForward's catch block.                        *)
(***************************************************************************)
\* Variant of ErrorBody: the message names the port the proxy listens on.
ErrorBodyListenPort(q, graphQLOperation) ==
  "{\"errors\":[{\"message\":\"Unable to reach server on "
    \o ToString(PORT) \o " for " \o q.method \o " " \o Flat(q.url) \o " "
    \o (IF graphQLOperation \notin {Undefined, "null", ""}
        THEN graphQLOperation ELSE "")
    \o "\",\"extensions\":{\"code\":\"BAD_GATEWAY\"}}]}"

ErrorBody(q, graphQLOperation) ==
  "{\"errors\":[{\"message\":\"Unable to reach server on "
    \o ToString(PROXY_PORT) \o " for " \o q.method \o " " \o Flat(q.url) \o " "
    \o (IF graphQLOperation \notin {Undefined, "null", ""}
        THEN graphQLOperation ELSE "")
    \o "\",\"extensions\":{\"code\":\"BAD_GATEWAY\"}}]}"

Synthesized(q) ==
  R(502, <<"content-type", "application/json">>,
    ErrorBody(q, graphQLOperationOf(q, q.body)))

(***************************************************************************)
(* serve: what the client receives for an EncodedResponse.                 *)
(***************************************************************************)
\* res.setHeader(name, value): one value per name, a later call replaces it.
setHeader(out, name, value) ==
  IF \E j \in DOMAIN out : out[j].name = name
  THEN [j \in DOMAIN out |-> IF out[j].name = name THEN H(name, value) ELSE out[j]]
  ELSE Append(out, H(name, value))

\* for (let i = 0; i < encoded.headers.length - 1; i += 2) res.setHeader(...)
\* (i is the 1-based index of the name).
RECURSIVE setHeaders(_, _, _)
setHeaders(headers, i, out) ==
  IF i >= Len(headers) THEN out
  ELSE setHeaders(headers, i + 2, setHeader(out, headers[i], headers[i + 1]))

Delivered(e) ==
  [statusCode |-> e.statusCode,
   headers |-> setHeaders(e.headers, 1, <<>>),
   body |-> e.body]

(***************************************************************************)
(* State.                                                                  *)
(*   SKIP_CACHE    the --skip-cache flag, fixed at start-up                *)
(*   files         the cache directory                                     *)
(*   pc[r]         where the handler of request r is suspended             *)
(*   req[r]        the request and its buffered body                       *)
(*   hash[r]       replayOrForward's local hash                            *)
(*   encoded[r]    replayOrForward's local (its return value once done)    *)
(*   response[r]   what serve sent to the client                           *)
(*   forwards[r]   history: calls of forwardRequest for r                  *)
(*   reads[r]      history: calls of getCachedResponse for r               *)
(*   seen[r]       history: what readFile found for r                      *)
(*   upstream[r]   history: the response forwardRequest resolved with      *)
(*   exited        the process has ended on an unhandled rejection         *)
(***************************************************************************)
\* The requests an earlier run of the proxy may have left a file for.
EarlierRequests ==
  { Q("GET", <<"/items", "?page=2">>, <<H("session", "bob")>>, <<>>),
    Q("POST", <<"/graphql">>, <<>>, GraphQLBody("GetA")) }

InitFilenames == {FilenameOf(q) : q \in EarlierRequests}

\* A record left by an earlier run, a cut-off record.
InitContents ==
  {SavedText(u) : u \in {x \in UpstreamResponses : x.statusCode = 200}}
    \cup {<<"{", "statusCode">>}

NoFiles == [f \in {} |-> <<>>]

Init ==
  /\ SKIP_CACHE \in BOOLEAN
  /\ files \in {NoFiles}
       \cup {[f \in {fn} |-> c] : fn \in InitFilenames, c \in InitContents}
  /\ pc = [r \in Slots |-> "idle"]
  /\ req = [r \in Slots |-> NoRequest]
  /\ hash = [r \in Slots |-> <<>>]
  /\ encoded = [r \in Slots |-> Null]
  /\ response = [r \in Slots |-> Null]
  /\ forwards = [r \in Slots |-> 0]
  /\ reads = [r \in Slots |-> 0]
  /\ seen = [r \in Slots |-> NotRead]
  /\ upstream = [r \in Slots |-> Null]
  /\ exited = FALSE

\* replayOrForward returns e; serve sends it.
Return(r, e) ==
  /\ encoded' = [encoded EXCEPT ![r] = e]
  /\ response' = [response EXCEPT ![r] = Delivered(e)]
  /\ pc' = [pc EXCEPT ![r] = "done"]

\* forwardRequest(req, data) is called.
CallForward(r) ==
  /\ forwards' = [forwards EXCEPT ![r] = @ + 1]
  /\ pc' = [pc EXCEPT ![r] = "forwarding"]

\* Variant of Receive: the cache is consulted whatever SKIP_CACHE says.
ReceiveAlwaysReads(r, q) ==
  /\ pc[r] = "idle"
  /\ ~exited
  /\ \A p \in Slots : p < r => pc[p] # "idle"
  /\ req' = [req EXCEPT ![r] = q]
  /\ IF OperationThrows(q, q.body)
     THEN /\ pc' = [pc EXCEPT ![r] = "crashed"]
          /\ exited' \in BOOLEAN
          /\ UNCHANGED <<hash, forwards, reads>>
     ELSE /\ hash' = [hash EXCEPT ![r] = hashRequest(q, q.body)]
          /\ UNCHANGED exited
          /\ pc' = [pc EXCEPT ![r] = "reading"]
          /\ reads' = [reads EXCEPT ![r] = @ + 1]
          /\ UNCHANGED forwards
  /\ UNCHANGED <<SKIP_CACHE, files, encoded, response, seen, upstream>>

\* Variant of Receive: a body that does not parse counts as a body without
\* an operation name.
ReceiveDegrades(r, q) ==
  /\ pc[r] = "idle"
  /\ ~exited
  /\ \A p \in Slots : p < r => pc[p] # "idle"
  /\ req' = [req EXCEPT ![r] = q]
  /\ hash' = [hash EXCEPT ![r] = hashRequest(q, q.body)]
  /\ IF SKIP_CACHE
     THEN /\ CallForward(r)
          /\ UNCHANGED reads
     ELSE /\ pc' = [pc EXCEPT ![r] = "reading"]
          /\ reads' = [reads EXCEPT ![r] = @ + 1]
          /\ UNCHANGED forwards
  /\ UNCHANGED <<SKIP_CACHE, exited, files, encoded, response, seen, upstream>>

\* The request's "end" event: the body is buffered, replayOrForward runs up
\* to its first await.  When JSON.parse throws, the promise of the async
\* listener is rejected with nothing handling it: depending on the runtime
\* the rejection is only reported, or it ends the process.
Receive(r, q) ==
  /\ pc[r] = "idle"
  /\ ~exited
  /\ \A p \in Slots : p < r => pc[p] # "idle"
  /\ req' = [req EXCEPT ![r] = q]
  /\ IF OperationThrows(q, q.body)
     THEN /\ pc' = [pc EXCEPT ![r] = "crashed"]
          /\ exited' \in BOOLEAN
          /\ UNCHANGED <<hash, forwards, reads>>
     ELSE /\ hash' = [hash EXCEPT ![r] = hashRequest(q, q.body)]
          /\ UNCHANGED exited
          /\ IF SKIP_CACHE
             THEN /\ CallForward(r)
                  /\ UNCHANGED reads
             ELSE /\ pc' = [pc EXCEPT ![r] = "reading"]
                  /\ reads' = [reads EXCEPT ![r] = @ + 1]
                  /\ UNCHANGED forwards
  /\ UNCHANGED <<SKIP_CACHE, files, encoded, response, seen, upstream>>

\* Variant of ReadCache: JSON.parse runs outside the try block, so text
\* that is not JSON ends the handler.
ReadCacheParseThrows(r) ==
  /\ pc[r] = "reading"
  /\ ~exited
  /\ seen' = [seen EXCEPT ![r] = readFile(files, Filename(r))]
  /\ LET q == req[r]
         text == readFile(files, Filename(r))
         e == getCachedResponse(files, hash[r], graphQLOperationOf(q, q.body))
     IN IF text # Enoent /\ ~JSONparse(text).ok
        THEN /\ pc' = [pc EXCEPT ![r] = "crashed"]
             /\ UNCHANGED <<encoded, response, forwards>>
        ELSE IF e # Null
        THEN /\ Return(r, e)
             /\ UNCHANGED forwards
        ELSE /\ CallForward(r)
             /\ UNCHANGED <<encoded, response>>
  /\ UNCHANGED <<SKIP_CACHE, exited, files, req, hash, reads, upstream>>

\* Variant of ReadCache: a hit is forwarded all the same, to refresh the
\* record.
ReadCacheRefreshes(r) ==
  /\ pc[r] = "reading"
  /\ ~exited
  /\ seen' = [seen EXCEPT ![r] = readFile(files, Filename(r))]
  /\ CallForward(r)
  /\ UNCHANGED <<SKIP_CACHE, exited, files, req, hash, encoded, response, reads,
                 upstream>>

\* getCachedResponse settles: a hit is returned, a miss is forwarded.
ReadCache(r) ==
  /\ pc[r] = "reading"
  /\ ~exited
  /\ seen' = [seen EXCEPT ![r] = readFile(files, Filename(r))]
  /\ LET q == req[r]
         e == getCachedResponse(files, hash[r], graphQLOperationOf(q, q.body))
     IN IF e # Null
        THEN /\ Return(r, e)
             /\ UNCHANGED forwards
        ELSE /\ CallForward(r)
             /\ UNCHANGED <<encoded, response>>
  /\ UNCHANGED <<SKIP_CACHE, exited, files, req, hash, reads, upstream>>

\* Variant of ForwardResolve: the response is returned at once, nothing is
\* saved.
ForwardResolveReturns(r, u) ==
  /\ pc[r] = "forwarding"
  /\ ~exited
  /\ upstream' = [upstream EXCEPT ![r] = u]
  /\ Return(r, u)
  /\ UNCHANGED <<SKIP_CACHE, exited, files, req, hash, forwards, reads, seen>>

\* forwardRequest resolves with the upstream's response u; saveResponse
\* calls writeFile.
ForwardResolve(r, u) ==
  /\ pc[r] = "forwarding"
  /\ ~exited
  /\ upstream' = [upstream EXCEPT ![r] = u]
  /\ encoded' = [encoded EXCEPT ![r] = u]
  /\ pc' = [pc EXCEPT ![r] = "opening"]
  /\ UNCHANGED <<SKIP_CACHE, exited, files, req, hash, response, forwards, reads, seen>>

\* The catch block: the synthesized 502 is returned.
Catch(r) == Return(r, Synthesized(req[r]))

\* Variant of ForwardReject: saveResponse runs after the try/catch, on
\* whatever encoded holds.
ForwardRejectSaved(r) ==
  /\ pc[r] = "forwarding"
  /\ ~exited
  /\ Catch(r)
  /\ files' = Written(files, Filename(r), SavedText(Synthesized(req[r])))
  /\ UNCHANGED <<SKIP_CACHE, exited, req, hash, forwards, reads, seen, upstream>>

\* Variant of ForwardReject: the first rejection is retried.
ForwardRejectRetried(r) ==
  /\ pc[r] = "forwarding"
  /\ ~exited
  /\ IF forwards[r] < 2
     THEN CallForward(r) /\ UNCHANGED <<encoded, response>>
     ELSE Catch(r) /\ UNCHANGED forwards
  /\ UNCHANGED <<SKIP_CACHE, exited, files, req, hash, reads, seen, upstream>>

\* forwardRequest rejects (an "error" event of the request or the response).
ForwardReject(r) ==
  /\ pc[r] = "forwarding"
  /\ ~exited
  /\ Catch(r)
  /\ UNCHANGED <<SKIP_CACHE, exited, files, req, hash, forwards, reads, seen, upstream>>

\* Variant of WriteOpen: the file is named by the hash alone.
WriteOpenBareHash(r) ==
  /\ pc[r] = "opening"
  /\ ~exited
  /\ files' = Truncated(files, hash[r])
  /\ pc' = [pc EXCEPT ![r] = "writing"]
  /\ UNCHANGED <<SKIP_CACHE, exited, req, hash, encoded, response, forwards, reads,
                 seen, upstream>>

\* writeFile opens the file.
WriteOpen(r) ==
  /\ pc[r] = "opening"
  /\ ~exited
  /\ files' = Truncated(files, Filename(r))
  /\ pc' = [pc EXCEPT ![r] = "writing"]
  /\ UNCHANGED <<SKIP_CACHE, exited, req, hash, encoded, response, forwards, reads, seen,
                 upstream>>

\* writeFile rejects at open (the directory is gone, no permission).
WriteOpenReject(r) ==
  /\ pc[r] = "opening"
  /\ ~exited
  /\ Catch(r)
  /\ UNCHANGED <<SKIP_CACHE, exited, files, req, hash, forwards, reads, seen, upstream>>

\* writeFile writes the text and resolves; replayOrForward returns encoded.
WriteData(r) ==
  /\ pc[r] = "writing"
  /\ ~exited
  /\ files' = Written(files, Filename(r), SavedText(encoded[r]))
  /\ Return(r, encoded[r])
  /\ UNCHANGED <<SKIP_CACHE, exited, req, hash, forwards, reads, seen, upstream>>

\* writeFile rejects at the write (disk full): the file stays as it is.
WriteDataReject(r) ==
  /\ pc[r] = "writing"
  /\ ~exited
  /\ Catch(r)
  /\ UNCHANGED <<SKIP_CACHE, exited, files, req, hash, forwards, reads, seen, upstream>>

Next ==
  \E r \in Slots :
    \/ \E q \in Requests : Receive(r, q)
    \/ ReadCache(r)
    \/ \E u \in UpstreamResponses : ForwardResolve(r, u)
    \/ ForwardReject(r)
    \/ WriteOpen(r)
    \/ WriteOpenReject(r)
    \/ WriteData(r)
    \/ WriteDataReject(r)

Spec == Init /\ [][Next]_vars

(***************************************************************************)
(* hashRequest on its own: each slot is handed a request and computes its  *)
(* fingerprint.                                                            *)
(***************************************************************************)
InitHash == Init /\ ~SKIP_CACHE /\ files = NoFiles

Fingerprint(r, q) ==
  /\ pc[r] = "idle"
  /\ ~exited
  /\ req' = [req EXCEPT ![r] = q]
  /\ hash' = [hash EXCEPT ![r] = hashRequest(q, q.body)]
  /\ pc' = [pc EXCEPT ![r] = "hashed"]
  /\ UNCHANGED <<SKIP_CACHE, exited, files, encoded, response, forwards, reads, seen,
                 upstream>>

NextHash == \E r \in Slots : \E q \in HashRequests : Fingerprint(r, q)

SpecHash == InitHash /\ [][NextHash]_vars

(***************************************************************************)
(* Properties.                                                             *)
(***************************************************************************)
\* The records the store can hold: what saveResponse writes for a response.
IsRecordOf(text, e) == text = JSONstringify(e)

Hit(r) == \E e \in UpstreamResponses : IsRecordOf(seen[r], e)

\* C1: with skip-cache off, a request whose read finds a readable record
\* under its cache key is answered with exactly that record's status code,
\* header list and body, and forwardRequest is not called for it.
C1_HitReplaysWithoutForward ==
  \A r \in Slots : \A e \in UpstreamResponses :
    IsRecordOf(seen[r], e) =>
      /\ ~SKIP_CACHE
      /\ pc[r] = "done"
      /\ encoded[r] = e
      /\ forwards[r] = 0
      /\ upstream[r] = Null

\* A request is answered from the record an earlier request captured.
C1_Witness ==
  \E r1, r2 \in Slots :
    /\ r1 # r2
    /\ pc[r1] = "done" /\ upstream[r1] # Null /\ encoded[r1] = upstream[r1]
    /\ pc[r2] = "done" /\ IsRecordOf(seen[r2], upstream[r1])
    /\ encoded[r2] = upstream[r1] /\ forwards[r2] = 0


\* hashRequest has returned for request r.
Keyed(r) == hash[r] # <<>>

\* req.headers[n], Undefined when the request has no such header.
HeaderOf(q, n) ==
  IF \E i \in DOMAIN q.headers : q.headers[i].name = n
  THEN HeaderValue(q, n) ELSE Undefined

\* C3: two requests with the same method, headers and body and different
\* URLs get different fingerprints, hence different cache filenames.
C3_UrlChangesFingerprint ==
  \A r1, r2 \in Slots :
    ( /\ Keyed(r1) /\ Keyed(r2)
      /\ req[r1].method = req[r2].method
      /\ req[r1].headers = req[r2].headers
      /\ req[r1].body = req[r2].body
      /\ req[r1].url # req[r2].url )
    => hash[r1] # hash[r2] /\ Filename(r1) # Filename(r2)

\* C4: two requests with the same method, URL and body that carry different
\* values of the session header get different fingerprints, hence different
\* cache filenames.
C4_SessionChangesFingerprint ==
  \A r1, r2 \in Slots :
    ( /\ Keyed(r1) /\ Keyed(r2)
      /\ req[r1].method = req[r2].method
      /\ req[r1].url = req[r2].url
      /\ req[r1].body = req[r2].body
      /\ HeaderOf(req[r1], "session") # Undefined
      /\ HeaderOf(req[r2], "session") # Undefined
      /\ HeaderOf(req[r1], "session") # HeaderOf(req[r2], "session") )
    => hash[r1] # hash[r2] /\ Filename(r1) # Filename(r2)

\* Two requests that differ at most in headers other than session, and in
\* the order of their headers.
SameButOtherHeaders(q1, q2) ==
  /\ q1.method = q2.method
  /\ q1.url = q2.url
  /\ q1.body = q2.body
  /\ HeaderOf(q1, "session") = HeaderOf(q2, "session")

\* C5: requests with the same method, URL, body and session header value
\* have the same fingerprint, whatever other headers each carries and in
\* whatever order.
C5_OtherHeadersIgnored ==
  \A r1, r2 \in Slots :
    (Keyed(r1) /\ Keyed(r2) /\ SameButOtherHeaders(req[r1], req[r2]))
      => hash[r1] = hash[r2]

\* Two fingerprinted requests with the same session value, one of them
\* carrying a further header in front of it.
C5_Witness ==
  \E r1, r2 \in Slots :
    /\ Keyed(r1) /\ Keyed(r2)
    /\ SameButOtherHeaders(req[r1], req[r2])
    /\ req[r1].headers = <<H("session", "alice")>>
    /\ req[r2].headers = <<H("x-time", "1"), H("session", "alice")>>
    /\ hash[r1] = hash[r2]

\* forwardRequest was called for r and rejected: r is answered, has made its
\* one call, and no upstream response was ever resolved.
ForwardFailed(r) == pc[r] = "done" /\ forwards[r] = 1 /\ upstream[r] = Null

\* The operation name of a request as the error message shows it.
OperationNameOrEmpty(q) ==
  IF IsGraphQL(q) /\ HasMember(JSONparse(q.body).m, "operationName")
  THEN Member(JSONparse(q.body).m, "operationName")[1]
  ELSE ""

\* C6: a request whose forward failed is answered with status 502, the
\* header list [content-type, application/json] and the JSON body naming
\* the upstream port, the method, the URL, the operation name (or nothing)
\* and the code BAD_GATEWAY.
C6_ForwardFailureSynthesized ==
  \A r \in Slots :
    ForwardFailed(r) =>
      /\ encoded[r].statusCode = 502
      /\ encoded[r].headers = <<"content-type", "application/json">>
      /\ encoded[r].body =
           "{\"errors\":[{\"message\":\"Unable to reach server on "
             \o ToString(PROXY_PORT) \o " for " \o req[r].method \o " "
             \o Flat(req[r].url) \o " " \o OperationNameOrEmpty(req[r])
             \o "\",\"extensions\":{\"code\":\"BAD_GATEWAY\"}}]}"
      /\ response[r].statusCode = 502

\* A GraphQL request and a plain request whose forwards failed, with the
\* bodies they are answered with.
C6_Witness ==
  \E r1, r2 \in Slots :
    /\ ForwardFailed(r1) /\ req[r1].url = <<"/graphql">>
    /\ encoded[r1].body =
         "{\"errors\":[{\"message\":\"Unable to reach server on 7001 for POST /graphql GetA\",\"extensions\":{\"code\":\"BAD_GATEWAY\"}}]}"
    /\ ForwardFailed(r2) /\ req[r2].url = <<"/items", "?page=2">>
    /\ encoded[r2].body =
         "{\"errors\":[{\"message\":\"Unable to reach server on 7001 for GET /items?page=2 \",\"extensions\":{\"code\":\"BAD_GATEWAY\"}}]}"

\* C7: a request whose forward has not succeeded changes nothing in the
\* store, in any of its steps up to and including the failure (so a record
\* that was there is still there, unmodified), and the response synthesized
\* for a failed forward is in no file.
C7_ForwardFailureLeavesStore ==
  /\ [][\A r \in Slots :
          (pc'[r] # pc[r] /\ upstream'[r] = Null) => files' = files]_vars
  /\ [](\A r \in Slots :
          ForwardFailed(r) =>
            \A f \in DOMAIN files : files[f] # JSONstringify(encoded[r]))

\* Skip-cache on: the only request made has failed to forward, and the
\* record under its key is a readable record.
C7_Witness ==
  \E r \in Slots :
    /\ SKIP_CACHE /\ ForwardFailed(r)
    /\ \A o \in Slots \ {r} : pc[o] = "idle"
    /\ Filename(r) \in DOMAIN files
    /\ \E e \in UpstreamResponses : IsRecordOf(files[Filename(r)], e)

\* C8: forwardRequest is called at most once for a request, not at all for
\* a request answered from the cache, and a request whose forward failed is
\* answered after that one call.
C8_AtMostOneForward ==
  \A r \in Slots :
    /\ forwards[r] <= 1
    /\ Hit(r) => forwards[r] = 0
    /\ (pc[r] = "done" /\ encoded[r] = Synthesized(req[r])) => forwards[r] = 1

\* One request answered after a failed forward, another answered from the
\* cache.
C8_Witness ==
  \E r1, r2 \in Slots :
    /\ ForwardFailed(r1) /\ encoded[r1] = Synthesized(req[r1])
    /\ Hit(r2) /\ pc[r2] = "done" /\ forwards[r2] = 0

\* The step of request r in which its writeFile resolves (WriteData).
Wrote(r) == pc[r] = "writing" /\ pc'[r] = "done" /\ encoded'[r] = upstream[r]

\* No other write has landed on r's file since r's open truncated it.
NothingWrittenSinceOpen(r) == files[Filename(r)] = <<>>

\* C2: with skip-cache on, no request reads the cache, every request that
\* got its cache key has called forwardRequest exactly once, whether or not
\* a record exists under its key, and when its write lands the file under
\* its key holds the forwarded response, replacing what was there.
C2_SkipCacheForwardsAndOverwrites ==
  /\ [](SKIP_CACHE =>
         \A r \in Slots :
           /\ reads[r] = 0 /\ seen[r] = NotRead
           /\ pc[r] \notin {"idle", "crashed"} => forwards[r] = 1)
  /\ [][SKIP_CACHE =>
         \A r \in Slots :
           Wrote(r) /\ NothingWrittenSinceOpen(r) =>
             /\ upstream[r] \in UpstreamResponses
             /\ files'[Filename(r)] = JSONstringify(upstream[r])]_vars

\* Skip-cache on: a second request for a key replaces the record the first
\* one stored with its own, different, forwarded response.
C2_Witness ==
  \E r1, r2 \in Slots :
    /\ SKIP_CACHE /\ r1 # r2 /\ Filename(r1) = Filename(r2)
    /\ pc[r1] = "done" /\ encoded[r1] = upstream[r1] /\ upstream[r1] # Null
    /\ pc[r2] = "done" /\ encoded[r2] = upstream[r2] /\ upstream[r2] # Null
    /\ upstream[r1] # upstream[r2]
    /\ forwards[r2] = 1 /\ reads[r2] = 0
    /\ files[Filename(r2)] = JSONstringify(upstream[r2])

\* C9: a request whose forward succeeded is answered with the upstream's
\* status, headers and body, also when writing the record failed.
C9_WriteFailureNotFatal ==
  \A r \in Slots :
    (pc[r] = "done" /\ upstream[r] # Null) =>
      /\ encoded[r] = upstream[r]
      /\ response[r].statusCode = upstream[r].statusCode
      /\ response[r].body = upstream[r].body

\* Text readFile can come back with that is no record: no file, text that
\* is not JSON, the text null.
Unreadable(text) ==
  text = Enoent \/ ~JSONparse(text).ok \/ JSONparse(text).isNull

\* A store in which readFile(fn) comes back with text.
StoreHolding(fn, text) ==
  IF text = Enoent THEN NoFiles ELSE [f \in {fn} |-> text]

\* C10: with skip-cache off, a request whose read finds no file or text
\* that is no record gets a miss from getCachedResponse, goes on without an
\* error and is forwarded; when the write of the forwarded response lands,
\* the file under its key is a readable record of that response.
C10_UnreadableIsMiss ==
  /\ [](\A r \in Slots :
          (seen[r] # NotRead /\ Unreadable(seen[r])) =>
            /\ ~SKIP_CACHE
            /\ getCachedResponse(StoreHolding(Filename(r), seen[r]), hash[r],
                                 graphQLOperationOf(req[r], req[r].body)) = Null
            /\ pc[r] \in {"forwarding", "opening", "writing", "done"}
            /\ forwards[r] = 1)
  /\ [][~SKIP_CACHE =>
         \A r \in Slots :
           Wrote(r) /\ NothingWrittenSinceOpen(r) =>
             /\ files'[Filename(r)] = JSONstringify(upstream[r])
             /\ getCachedResponse(files', hash[r],
                                  graphQLOperationOf(req[r], req[r].body))
                  = upstream[r]]_vars

\* The only request made found a cut-off record under its key, was
\* forwarded, and left a readable record of the forwarded response there.
C10_Witness ==
  \E r \in Slots :
    /\ ~SKIP_CACHE /\ pc[r] = "done"
    /\ \A o \in Slots \ {r} : pc[o] = "idle"
    /\ seen[r] = <<"{", "statusCode">>
    /\ upstream[r] # Null /\ encoded[r] = upstream[r]
    /\ files[Filename(r)] = JSONstringify(upstream[r])
    /\ getCachedResponse(files, hash[r], graphQLOperationOf(req[r], req[r].body))
         = upstream[r]

\* graphQLOperation of request r.
Operation(r) == graphQLOperationOf(req[r], req[r].body)

\* Two requests to the GraphQL path that got their keys and whose bodies
\* name different operations.
DifferentOperations(r1, r2) ==
  /\ Keyed(r1) /\ Keyed(r2)
  /\ IsGraphQL(req[r1]) /\ IsGraphQL(req[r2])
  /\ Operation(r1) # Operation(r2)

\* C11: two requests to the GraphQL path that name different operations
\* have different cache filenames, and would have under one and the same
\* fingerprint; a request whose file is not in the store, whatever the
\* store holds for other operations, has missed and been forwarded.
C11_OperationNamespaces ==
  \A r1, r2 \in Slots :
    DifferentOperations(r1, r2) =>
      /\ Filename(r1) # Filename(r2)
      /\ cacheFilename(hash[r1], Operation(r1))
           # cacheFilename(hash[r1], Operation(r2))
      /\ (seen[r2] # NotRead /\ Filename(r2) \notin DOMAIN files) =>
           /\ seen[r2] = Enoent
           /\ forwards[r2] = 1

\* The record of one operation is in the store, and a request naming
\* another operation has missed.
C11_Witness ==
  \E r1, r2 \in Slots :
    /\ DifferentOperations(r1, r2)
    /\ pc[r1] = "done" /\ upstream[r1] # Null
    /\ DOMAIN files = {Filename(r1)}
    /\ files[Filename(r1)] = JSONstringify(upstream[r1])
    /\ seen[r2] = Enoent /\ forwards[r2] = 1

\* The name/value pairs of a flat header list, in its order.
Pairs(headers) ==
  [i \in 1..(Len(headers) \div 2) |-> H(headers[2 * i - 1], headers[2 * i])]

\* C12: the response sent for an answered request carries the status code
\* and the body of the record replayOrForward returned, and every name/value
\* pair of its header list in the original order, repeated names included.
C12_DeliveredVerbatim ==
  \A r \in Slots :
    pc[r] = "done" =>
      /\ response[r].statusCode = encoded[r].statusCode
      /\ response[r].body = encoded[r].body
      /\ response[r].headers = Pairs(encoded[r].headers)

\* The steps the handler of request r takes once the request is received:
\* the settlements of its cache read, its forward and its write.
Handle(r) ==
  \/ ReadCache(r)
  \/ \E u \in UpstreamResponses : ForwardResolve(r, u)
  \/ ForwardReject(r)
  \/ WriteOpen(r)
  \/ WriteOpenReject(r)
  \/ WriteData(r)
  \/ WriteDataReject(r)

Answered(r) == pc[r] = "done" /\ response[r] # Null

\* C13: every received request, whatever its method, path and body, is
\* answered or on its way to the answer: either serve has sent its response
\* or its handler has a pending read, forward or write whose settlement
\* takes it further (so that, these settling eventually, it is answered).
C13_EveryRequestAnswered ==
  \A r \in Slots :
    pc[r] # "idle" => Answered(r) \/ ENABLED Handle(r)

\* The step is one of saveResponse's writeFile of request r.
Writes(r) == pc[r] \in {"opening", "writing"} /\ pc'[r] # pc[r]

\* C14 as stated: with skip-cache off, a readable record in the store is
\* never changed by any step of any request.
C14_RecordsCreatedOnce ==
  [][~SKIP_CACHE =>
       \A fn \in DOMAIN files :
         ~Unreadable(files[fn]) => files'[fn] = files[fn]]_vars

\* C14, amended: with skip-cache off, a readable record is changed only by
\* the writeFile of a request for its key whose own cache read had missed;
\* a request whose read found a readable record never writes.
C14_RecordsChangedByMissesOnly ==
  [][~SKIP_CACHE =>
       /\ \A fn \in DOMAIN files :
            (~Unreadable(files[fn]) /\ files'[fn] # files[fn]) =>
              \E r \in Slots :
                /\ Writes(r)
                /\ Filename(r) = fn
                /\ Unreadable(seen[r])
       /\ \A r \in Slots : ~Unreadable(seen[r]) => ~Writes(r)]_vars

\* Two requests for one key have both missed and both stored their forwarded
\* response: the record of the first has been replaced by the second's; a
\* third request, had there been one, reads it.
C14_Witness ==
  \E r1, r2 \in Slots :
    /\ ~SKIP_CACHE /\ r1 # r2 /\ Keyed(r1) /\ Keyed(r2)
    /\ Filename(r1) = Filename(r2)
    /\ Unreadable(seen[r1]) /\ Unreadable(seen[r2])
    /\ pc[r1] = "done" /\ encoded[r1] = upstream[r1] /\ upstream[r1] # Null
    /\ pc[r2] = "done" /\ encoded[r2] = upstream[r2] /\ upstream[r2] # Null
    /\ upstream[r1] # upstream[r2]
    /\ files[Filename(r2)] = JSONstringify(upstream[r2])

\* Requests r and o have the same cache key, both found no file under it,
\* and o has stored its forwarded response and been answered.
MissedWith(r, o) ==
  /\ r # o
  /\ Keyed(r) /\ Keyed(o)
  /\ Filename(r) = Filename(o)
  /\ seen[r] = Enoent /\ seen[o] = Enoent
  /\ pc[o] = "done" /\ upstream[o] # Null /\ encoded[o] = upstream[o]

\* C15: with skip-cache off, when two requests for one key have both missed
\* on a store without a record for it and both have stored their forwarded
\* response, then, the moment the later of the two writes completes, the
\* file under the key holds the record of the response that write stored.
C15_LastWriteWins ==
  [][~SKIP_CACHE =>
       \A r, o \in Slots :
         (MissedWith(r, o) /\ Wrote(r)) =>
           files'[Filename(r)] = JSONstringify(upstream[r])]_vars

\* File fn is in the store before and after the step, with the same text,
\* or in neither.
Untouched(fn) ==
  /\ fn \in DOMAIN files <=> fn \in DOMAIN files'
  /\ fn \in DOMAIN files => files'[fn] = files[fn]

\* C16: a step of the handler of request r creates, changes or removes no
\* file other than the one under r's cache key (receiving the request
\* touches no file at all).
C16_OtherKeysUntouched ==
  [][\A r \in Slots :
       pc'[r] # pc[r] =>
         IF pc[r] = "idle"
         THEN files' = files
         ELSE \A fn \in DOMAIN files \cup DOMAIN files' :
                fn # Filename(r) => Untouched(fn)]_vars

\* Two requests with different cache keys have both missed and both stored
\* their forwarded response, each under its own key.
C16_Witness ==
  \E r1, r2 \in Slots :
    /\ Keyed(r1) /\ Keyed(r2) /\ Filename(r1) # Filename(r2)
    /\ seen[r1] = Enoent /\ seen[r2] = Enoent
    /\ pc[r1] = "done" /\ upstream[r1] # Null
    /\ pc[r2] = "done" /\ upstream[r2] # Null
    /\ DOMAIN files = {Filename(r1), Filename(r2)}
    /\ files[Filename(r1)] = JSONstringify(upstream[r1])
    /\ files[Filename(r2)] = JSONstringify(upstream[r2])

\* The step in which request r, having missed, is answered with the
\* response its forward resolved with.
ReturnsForwarded(r) ==
  /\ pc[r] # "done" /\ pc'[r] = "done"
  /\ upstream'[r] # Null /\ encoded'[r] = upstream'[r]
  /\ seen[r] # NotRead /\ Unreadable(seen[r])

\* Request r1 missed, stored its forwarded response and was answered with
\* it; r2 is the same request, about to read the cache; no third request
\* for the key has been received.
NextIdentical(r1, r2) ==
  /\ r1 # r2
  /\ ~SKIP_CACHE
  /\ pc[r2] = "reading" /\ pc[r1] = "done"
  /\ req[r2] = req[r1]
  /\ upstream[r1] # Null /\ encoded[r1] = upstream[r1]
  /\ Unreadable(seen[r1])
  /\ \A o \in Slots \ {r1, r2} : Keyed(o) => Filename(o) # Filename(r1)

\* C17: a request that missed is answered with the forwarded response only
\* in the step in which its writeFile resolves, having written under its
\* key the record of the returned response (which, no other write to the
\* file overlapping, is what the file then holds); and when such a
\* request is done and no other request for its key is about, the next
\* identical request reads that record and is answered with the same
\* response without a forward.
C17_PersistPrecedesRespond ==
  [][\A r \in Slots :
       pc'[r] # pc[r] =>
         /\ ReturnsForwarded(r) =>
              /\ pc[r] = "writing"
              /\ files' = Written(files, Filename(r), JSONstringify(encoded'[r]))
              /\ NothingWrittenSinceOpen(r) =>
                   files'[Filename(r)] = JSONstringify(encoded'[r])
         /\ \A r1 \in Slots :
              NextIdentical(r1, r) =>
                /\ pc'[r] = "done"
                /\ seen'[r] = JSONstringify(encoded[r1])
                /\ encoded'[r] = encoded[r1]
                /\ response'[r] = response[r1]
                /\ forwards'[r] = 0 /\ upstream'[r] = Null]_vars

\* A miss has stored its forwarded response and the next identical request
\* has been answered from that record, without a forward.
C17_Witness ==
  \E r1, r2 \in Slots :
    /\ r1 # r2 /\ ~SKIP_CACHE /\ req[r1] = req[r2]
    /\ pc[r1] = "done" /\ seen[r1] = Enoent
    /\ upstream[r1] # Null /\ encoded[r1] = upstream[r1]
    /\ pc[r2] = "done" /\ seen[r2] = JSONstringify(upstream[r1])
    /\ encoded[r2] = encoded[r1] /\ response[r2] = response[r1]
    /\ forwards[r2] = 0

\* Request r has been received, its URL starts with /graphql and its body
\* is not JSON.
Malformed(r) ==
  pc[r] # "idle" /\ IsGraphQL(req[r]) /\ ~JSONparse(req[r].body).ok

\* C18: the handler of a request to the GraphQL path whose body is not JSON
\* ends while extracting the operation name: no hash is computed,
\* forwardRequest and getCachedResponse are never called for it, no file is
\* read, it returns and sends no response (neither an upstream's nor the
\* synthesized 502), and no step taken for it changes the store.
C18_MalformedGraphQLAborts ==
  /\ [](\A r \in Slots :
          Malformed(r) =>
            /\ pc[r] = "crashed" /\ hash[r] = <<>>
            /\ forwards[r] = 0 /\ upstream[r] = Null
            /\ reads[r] = 0 /\ seen[r] = NotRead
            /\ encoded[r] = Null /\ response[r] = Null)
  /\ [][\A r \in Slots :
          (pc'[r] # pc[r] /\ pc'[r] = "crashed") => files' = files]_vars

\* One request has stored its forwarded response, another, with a
\* malformed GraphQL body, has ended in the error, the process going on.
C18_Witness ==
  \E r1, r2 \in Slots :
    /\ Malformed(r1) /\ pc[r1] = "crashed" /\ response[r1] = Null
    /\ ~exited
    /\ pc[r2] = "done" /\ upstream[r2] # Null
    /\ Filename(r2) \in DOMAIN files

====
